---- MODULE Spec2Model ----
(***************************************************************************)
(* Model of the GitHub Python repo scraper (src/scraper.py).               *)
(*                                                                         *)
(* Three state machines share the module:                                  *)
(*   - the request layer   make_github_request  (SpecRequest)              *)
(*   - the paginated search  search_repositories (SpecSearch)              *)
(*   - the run: main, the worker pool, process_repository and the walk     *)
(*     find_python_files / get_file_content_and_stats                      *)
(*     (Spec: the concurrent run; SpecWalk: one repository under every     *)
(*     filter setting; SpecRerun: main run again in the same directory)    *)
(* A specification runs one machine; the variables of the others rest.     *)
(* Inside the run a request is taken by its result (the JSON answer or     *)
(* GitHubAPIError), which SpecRequest relates to the transport outcomes.   *)
(***************************************************************************)
EXTENDS Integers, Sequences, FiniteSets, TLC

VARIABLES
    \* ---- make_github_request
    method,         \* the HTTP method of the call
    attempt,        \* the loop variable of `for attempt in range(MAX_RETRIES)`
    wait_time,      \* the pause computed after a failed attempt
    reqPc,          \* "idle" | "try" | "sleep" | "returned" | "raised"
    reqResult,      \* "none" | "json" | "GitHubAPIError" | "ValueError"
    reqLog,         \* the transport calls and the sleeps of the call, in order
    \* ---- search_repositories
    max_repos,      \* the target count
    totalAvailable, \* how many repositories the remote has for the query
    repos,          \* the accumulated descriptors
    page,           \* the next page to ask for
    searchPc,       \* "idle" | "loop" | "exit" | "done"
    searchErr,      \* "none" | "GitHubAPIError" | "no_items": why the loop broke
    arrived,        \* the items of every page received so far, in arrival order
    returned,       \* the value search_repositories returns
    rate_limit,     \* the snapshot of this iteration: <<>> (None) or <<snapshot>>
    now_read,       \* what datetime.now() gave when the pause was computed
    paused,         \* the pause made in this iteration, -1 if none
    quotaChecks,    \* how many times the loop asked for the quota
    pageRequests,   \* how many page requests the loop issued
    blindPage,      \* whether the last page request followed a failed quota query
    \* ---- the remote and the directory, as a run finds them
    searchResult,   \* the descriptors the search gives main (a repository is its id)
    content,        \* per (repository, path): what the contents endpoint serves
    disk,           \* the keys held by the JSON files of the script directory
    \* ---- the command line
    min_lines, max_lines, quality_threshold, max_workers,
    \* ---- main
    mainPc,         \* "idle" | "start" | "probe" | "reprobe" | "aborted" |
                    \* "search" | "submit" | "join" | "done"
    rate_limit_status, \* main's snapshot: <<>> (None) or <<snapshot>>
    start_now,      \* what datetime.now() gave when main computed its wait
    startup_wait,   \* the pause main made before the search, -1 if none
    probeFailed,    \* whether a probe of main returned None (history)
    existing_data,  \* the snapshot load_existing_data returns
    processed_files,\* the keys recorded by the tasks of this run
    lock,           \* processed_files_lock: 0 when free, else the task holding it
    main_repos,     \* main's `repos`
    task,           \* per submitted future: the state of its process_repository
    collected,      \* the futures whose result main has consumed
    all_results, total_skipped,
    output,         \* what main wrote to the output file: <<>> or <<all_results>>
    \* ---- the history of earlier runs
    runNo,          \* 1 for the first run, 2 for the re-run
    firstDisk,      \* the directory as the first run found it
    prevRecords,    \* the number of records the previous run wrote, -1 if none
    item_segments,  \* the directory and file names of the tree item looked at
    item_path,      \* item["path"]: the names joined by "/"
    matched,        \* the positions of exclude_patterns that re.search finds
    skipped,        \* whether the walk skips the item (`continue`)
    excludePc,      \* "idle" | "item" | "checked"
    transient       \* whether a request of a task failed or was malformed so far

reqVars == <<method, attempt, wait_time, reqPc, reqResult, reqLog>>

searchVars == <<max_repos, totalAvailable, repos, page, searchPc, searchErr,
                arrived, returned, rate_limit, now_read, paused, quotaChecks,
                pageRequests, blindPage>>

remoteVars == <<searchResult, content>>

configVars == <<min_lines, max_lines, quality_threshold, max_workers>>

mainVars == <<mainPc, existing_data, processed_files, lock, main_repos, task,
              collected, all_results, total_skipped, output>>

preflightVars == <<rate_limit_status, start_now, startup_wait, probeFailed>>

historyVars == <<disk, runNo, firstDisk, prevRecords>>

runVars == <<remoteVars, configVars, mainVars, preflightVars, historyVars,
             transient>>

excludeVars == <<item_segments, item_path, matched, skipped, excludePc>>

vars == <<reqVars, searchVars, runVars, excludeVars>>

----------------------------------------------------------------------------
(* Program constants                                                        *)

MAX_RETRIES == 3
RETRY_DELAY == 5
per_page == 100

----------------------------------------------------------------------------
(* Bounds of the model                                                      *)

MaxTarget == 105    \* max_repos ranges over 1..MaxTarget
MaxTotal == 110     \* totalAvailable ranges over 0..MaxTotal
MaxRepos == 2       \* the search gives main at most MaxRepos descriptors
MaxWorkers == 2     \* max_workers ranges over 1..MaxWorkers
MaxRuns == 2        \* main is run at most MaxRuns times in the same directory
MaxRemaining == 2   \* a quota's `remaining` ranges over 0..MaxRemaining
MaxDepth == 2       \* a tree item lies under at most MaxDepth directories

----------------------------------------------------------------------------
(* Helpers                                                                  *)

Min(a, b) == IF a <= b THEN a ELSE b
Max(a, b) == IF a >= b THEN a ELSE b

RECURSIVE Pow2(_)
Pow2(n) == IF n = 0 THEN 1 ELSE 2 * Pow2(n - 1)

----------------------------------------------------------------------------
(* make_github_request                                                      *)

\* The methods a caller may pass; every caller of the repository passes GET.
Methods == {"GET", "POST", "PUT"}

\* What one requests.get / requests.post followed by raise_for_status does:
\* a 2xx answer, or one of the RequestException subclasses.
TransportOutcomes == {"ok", "ConnectionError", "Timeout", "HTTPError"}

AttemptEvent(n, o) == [ev |-> "attempt", n |-> n, outcome |-> o, secs |-> 0]
SleepEvent(n, s)   == [ev |-> "sleep", n |-> n, outcome |-> "none", secs |-> s]

\* (a variant that doubles once too often: 10s, 20s)
BackoffDelayShifted(a) == RETRY_DELAY * Pow2(a + 1)

\* wait_time = RETRY_DELAY * (2**attempt)
BackoffDelay(a) == RETRY_DELAY * Pow2(a)

\* (a variant that compares with the ceiling itself, so never gives up in time)
IsLastAttemptOffByOne(a) == a = MAX_RETRIES

\* `if attempt == MAX_RETRIES - 1` in the except clause
IsLastAttempt(a) == a = MAX_RETRIES - 1

\* One iteration of the for loop up to its return, raise or sleep.
RequestAttempt ==
    /\ reqPc = "try"
    /\ attempt < MAX_RETRIES
    /\ IF method \notin {"GET", "POST"}
       THEN \* raise ValueError: not a RequestException, it leaves the function
            /\ reqPc' = "raised"
            /\ reqResult' = "ValueError"
            /\ UNCHANGED <<method, attempt, wait_time, reqLog>>
       ELSE \E o \in TransportOutcomes :
            /\ reqLog' = Append(reqLog, AttemptEvent(attempt + 1, o))
            /\ IF o = "ok"
               THEN /\ reqPc' = "returned"
                    /\ reqResult' = "json"
                    /\ UNCHANGED <<method, attempt, wait_time>>
               ELSE IF IsLastAttempt(attempt)
               THEN /\ reqPc' = "raised"
                    /\ reqResult' = "GitHubAPIError"
                    /\ UNCHANGED <<method, attempt, wait_time>>
               ELSE /\ wait_time' = BackoffDelay(attempt)
                    /\ reqPc' = "sleep"
                    /\ UNCHANGED <<method, attempt, reqResult>>

\* time.sleep(wait_time), then the next iteration of the loop.
RequestSleep ==
    /\ reqPc = "sleep"
    /\ reqLog' = Append(reqLog, SleepEvent(attempt + 1, wait_time))
    /\ attempt' = attempt + 1
    /\ reqPc' = "try"
    /\ UNCHANGED <<method, wait_time, reqResult>>

InitExcludeIdle ==
    /\ item_segments = <<>>
    /\ item_path = <<>>
    /\ matched = {}
    /\ skipped = FALSE
    /\ excludePc = "idle"

InitRequestIdle ==
    /\ method = "GET"
    /\ attempt = 0
    /\ wait_time = 0
    /\ reqPc = "idle"
    /\ reqResult = "none"
    /\ reqLog = <<>>

InitSearchIdle ==
    /\ max_repos = 1
    /\ totalAvailable = 0
    /\ repos = <<>>
    /\ page = 1
    /\ searchPc = "idle"
    /\ searchErr = "none"
    /\ arrived = <<>>
    /\ returned = <<>>
    /\ rate_limit = <<>>
    /\ now_read = 0
    /\ paused = -1
    /\ quotaChecks = 0
    /\ pageRequests = 0
    /\ blindPage = FALSE

InitRunIdle ==
    /\ searchResult = <<>>
    /\ content = <<>>
    /\ disk = {}
    /\ min_lines = 1
    /\ max_lines = 100
    /\ quality_threshold = 0
    /\ max_workers = 1
    /\ mainPc = "idle"
    /\ existing_data = {}
    /\ processed_files = {}
    /\ lock = 0
    /\ main_repos = <<>>
    /\ task = <<>>
    /\ collected = {}
    /\ all_results = <<>>
    /\ total_skipped = 0
    /\ output = <<>>
    /\ rate_limit_status = <<>>
    /\ start_now = 0
    /\ startup_wait = -1
    /\ probeFailed = FALSE
    /\ runNo = 1
    /\ firstDisk = {}
    /\ prevRecords = -1
    /\ transient = FALSE

InitRequest ==
    /\ method \in Methods
    /\ attempt = 0
    /\ wait_time = 0
    /\ reqPc = "try"
    /\ reqResult = "none"
    /\ reqLog = <<>>
    /\ InitSearchIdle
    /\ InitRunIdle
    /\ InitExcludeIdle

NextRequest ==
    \/ RequestAttempt /\ UNCHANGED <<searchVars, runVars, excludeVars>>
    \/ RequestSleep /\ UNCHANGED <<searchVars, runVars, excludeVars>>

SpecRequest == InitRequest /\ [][NextRequest]_vars

\* The transport calls of the call so far, and whether each failed.
Attempts == SelectSeq(reqLog, LAMBDA e : e.ev = "attempt")
Failed(e) == e.ev = "attempt" /\ e.outcome # "ok"
AllFailed(s) == \A i \in 1..Len(s) : Failed(s[i])

\* C2: a success after fewer than 3 consecutive failures is returned; 3
\* failures in a row end the call with GitHubAPIError after exactly 3
\* attempts; no call makes more than 3 attempts.
RequestExecutorContract ==
    LET a == Attempts
        n == Len(a)
    IN  /\ n <= 3
        /\ \A i \in 1..n : a[i].n = i
        /\ \A i \in 1..(n - 1) : Failed(a[i])
        /\ (n > 0 /\ a[n].outcome = "ok")
              => (reqPc = "returned" /\ reqResult = "json")
        /\ reqPc = "returned" => (n > 0 /\ a[n].outcome = "ok")
        /\ (n = 3 /\ AllFailed(a))
              => (reqPc = "raised" /\ reqResult = "GitHubAPIError")
        /\ reqResult = "GitHubAPIError" => (n = 3 /\ AllFailed(a))

\* C2 witness: two failures, then the third attempt succeeds and is returned.
SuccessAfterTwoFailures ==
    /\ reqPc = "returned"
    /\ reqResult = "json"
    /\ Len(Attempts) = 3
    /\ Failed(Attempts[1]) /\ Failed(Attempts[2])

\* C3: the pause after failed attempt k is 5s for k = 1 and 10s for k = 2; it
\* lies between failed attempt k and attempt k + 1; a call that fails for
\* good ends on its third failed attempt with no pause after it.
BackoffTiming ==
    /\ \A i \in 1..Len(reqLog) :
          reqLog[i].ev = "sleep" =>
            /\ reqLog[i].n \in {1, 2}
            /\ reqLog[i].n = 1 => reqLog[i].secs = 5
            /\ reqLog[i].n = 2 => reqLog[i].secs = 10
            /\ i > 1 /\ Failed(reqLog[i - 1]) /\ reqLog[i - 1].n = reqLog[i].n
            /\ i < Len(reqLog) =>
                 (reqLog[i + 1].ev = "attempt" /\ reqLog[i + 1].n = reqLog[i].n + 1)
    /\ \A i \in 1..Len(reqLog) :
          (reqLog[i].ev = "attempt" /\ reqLog[i].n > 1) =>
             (i > 1 /\ reqLog[i - 1].ev = "sleep")
    /\ \A i \in 1..(Len(reqLog) - 1) : Failed(reqLog[i]) => reqLog[i + 1].ev = "sleep"
    /\ reqResult = "GitHubAPIError" =>
          /\ Len(reqLog) = 5
          /\ Failed(reqLog[5]) /\ reqLog[5].n = 3
          /\ reqLog[2].ev = "sleep" /\ reqLog[4].ev = "sleep"
    /\ (reqPc = "try" /\ attempt > 0) => reqLog[Len(reqLog)].ev = "sleep"

\* C3 witness: three failures, with the two pauses of 5s and 10s between them.
ExhaustedAfterTwoPauses ==
    /\ reqResult = "GitHubAPIError"
    /\ Len(reqLog) = 5
    /\ reqLog[2].secs = 5
    /\ reqLog[4].secs = 10

----------------------------------------------------------------------------
(* get_rate_limit_status and the throttle                                   *)

\* One category of GET /rate_limit: remaining >= 0 and the epoch second of the
\* reset. The clock readings and the reset times lie around each other, so
\* that resets in the past, now and in the future all occur.
NowTimes == {10, 11}
ResetTimes == 9..12
Quotas == [remaining : 0..MaxRemaining, reset : ResetTimes]

\* A category that is not low, for the one the caller does not read.
AmpleQuota == [remaining |-> MaxRemaining, reset |-> 12]

\* What get_rate_limit_status returns: None (the request failed for good, the
\* answer was empty or lacked a field) is <<>>, a snapshot s is <<s>>.
None == <<>>
Snapshot(core, search) == <<[core |-> core, search |-> search]>>

\* The answers met by the search loop, which reads `search`, and by main,
\* which reads `core`.
SearchProbes == {None} \cup {Snapshot(AmpleQuota, q) : q \in Quotas}
CoreProbes == {None} \cup {Snapshot(q, AmpleQuota) : q \in Quotas}

\* (a variant without the clamp at zero)
ThrottleWaitUnclamped(reset, now) == reset - now + 1

\* wait_time = (reset_time - datetime.now()).total_seconds() + 1;
\* wait_time = max(0, wait_time)
ThrottleWait(reset, now) == Max(0, reset - now + 1)

\* `rate_limit and rate_limit["search"]["remaining"] <= 1`
SearchQuotaLow(s) == s # None /\ s[1].search.remaining <= 1

----------------------------------------------------------------------------
(* search_repositories                                                      *)

\* The remote's answer for page p: the repositories (p-1)*100+1 .. p*100 of
\* the totalAvailable it has, in its own order (a repository is its rank).
RemotePage(p) ==
    LET first == (p - 1) * per_page
        n == Max(0, Min(per_page, totalAvailable - first))
    IN  [i \in 1..n |-> first + i]

\* What make_github_request gives the search loop: the page, a page without
\* the "items" key, or GitHubAPIError after the retries.
SearchOutcomes == {"ok", "no_items", "GitHubAPIError"}

\* (a variant that puts the new page in front of the earlier ones)
TakeFromPageInFront(acc, items, target) ==
    SubSeq(items, 1, Min(Len(items), target - Len(acc))) \o acc

\* `for item in data["items"]: repos.append(item) ... if len(repos) >=
\* max_repos: break`
TakeFromPage(acc, items, target) ==
    acc \o SubSeq(items, 1, Min(Len(items), target - Len(acc)))

\* (a variant that also stops after a full page)
IsLastPageInclusive(items) == Len(items) <= per_page

\* `if len(data["items"]) < per_page: break`
IsLastPage(items) == Len(items) < per_page

\* `return repos[:max_repos]`
Truncate(acc, target) == SubSeq(acc, 1, Min(Len(acc), target))

\* (a variant that gives the search up when the quota is unknown)
AfterQuotaStopOnNone(s) == IF s = None THEN "exit" ELSE "page"

\* Whatever get_rate_limit_status returned, the loop goes on to the page
\* request.
AfterQuota(s) == "page"

\* The head of one iteration of `while len(repos) < max_repos`: the quota is
\* asked for, and if `search` is low the loop sleeps until the reset.
SearchQuota ==
    /\ searchPc = "loop"
    /\ Len(repos) < max_repos
    /\ \E s \in SearchProbes :
         /\ rate_limit' = s
         /\ quotaChecks' = quotaChecks + 1
         /\ searchPc' = AfterQuota(s)
         /\ IF SearchQuotaLow(s)
            THEN \E n \in NowTimes :
                   /\ now_read' = n
                   /\ paused' = ThrottleWait(s[1].search.reset, n)
            ELSE /\ now_read' = 0
                 /\ paused' = -1
    /\ UNCHANGED <<max_repos, totalAvailable, repos, page, searchErr, arrived,
                   returned, pageRequests, blindPage>>

\* The rest of the iteration: the page request and what the loop does with
\* its answer. rate_limit, the clock reading and the pause are dead once the
\* request is issued (the next iteration overwrites them): they are reset.
SearchPage ==
    /\ searchPc = "page"
    /\ pageRequests' = pageRequests + 1
    /\ blindPage' = (rate_limit = None)
    /\ rate_limit' = None
    /\ now_read' = 0
    /\ paused' = -1
    /\ UNCHANGED quotaChecks
    /\ \E o \in SearchOutcomes :
        IF o = "GitHubAPIError"
        THEN \* except GitHubAPIError: logged, break
             /\ searchErr' = "GitHubAPIError"
             /\ searchPc' = "exit"
             /\ UNCHANGED <<max_repos, totalAvailable, repos, page, arrived, returned>>
        ELSE IF o = "no_items" \/ RemotePage(page) = <<>>
        THEN \* `if "items" not in data or not data["items"]: break`
             /\ searchErr' = IF o = "no_items" THEN "no_items" ELSE searchErr
             /\ searchPc' = "exit"
             /\ UNCHANGED <<max_repos, totalAvailable, repos, page, arrived, returned>>
        ELSE LET items == RemotePage(page) IN
             /\ arrived' = arrived \o items
             /\ repos' = TakeFromPage(repos, items, max_repos)
             /\ page' = page + 1
             /\ searchPc' = IF IsLastPage(items) THEN "exit" ELSE "loop"
             /\ UNCHANGED <<max_repos, totalAvailable, searchErr, returned>>

\* The loop is left (its condition is false, or a break): return
\* repos[:max_repos].
SearchReturn ==
    /\ \/ searchPc = "exit"
       \/ searchPc = "loop" /\ Len(repos) >= max_repos
    /\ returned' = Truncate(repos, max_repos)
    /\ searchPc' = "done"
    /\ UNCHANGED <<max_repos, totalAvailable, repos, page, searchErr, arrived,
                   rate_limit, now_read, paused, quotaChecks, pageRequests,
                   blindPage>>

InitSearch ==
    /\ max_repos \in 1..MaxTarget
    /\ totalAvailable \in 0..MaxTotal
    /\ repos = <<>>
    /\ page = 1
    /\ searchPc = "loop"
    /\ searchErr = "none"
    /\ arrived = <<>>
    /\ returned = <<>>
    /\ rate_limit = None
    /\ now_read = 0
    /\ paused = -1
    /\ quotaChecks = 0
    /\ pageRequests = 0
    /\ blindPage = FALSE
    /\ InitRequestIdle
    /\ InitExcludeIdle
    /\ InitRunIdle

NextSearch ==
    \/ SearchQuota /\ UNCHANGED <<reqVars, runVars, excludeVars>>
    \/ SearchPage /\ UNCHANGED <<reqVars, runVars, excludeVars>>
    \/ SearchReturn /\ UNCHANGED <<reqVars, runVars, excludeVars>>

SpecSearch == InitSearch /\ [][NextSearch]_vars

IsPrefix(s, t) == Len(s) <= Len(t) /\ s = SubSeq(t, 1, Len(s))

\* C4: the search never returns more than max_repos descriptors, and when no
\* remote call failed it returns at least min(max_repos, totalAvailable).
SearchCountBounds ==
    /\ Len(returned) <= max_repos
    /\ Len(repos) <= max_repos
    /\ (searchPc = "done" /\ searchErr = "none")
          => Len(returned) >= Min(max_repos, totalAvailable)

\* C4 witness: the remote has exactly one full page, the target is larger,
\* and the search returns everything the remote has after an empty page.
SearchExactMultipleReturned ==
    /\ searchPc = "done"
    /\ searchErr = "none"
    /\ totalAvailable = per_page
    /\ max_repos > per_page
    /\ page = 2
    /\ Len(returned) = per_page

\* C5: a page request that fails for good ends the loop and the search
\* returns all the earlier pages; in every case the value returned is the
\* pages received, in arrival order, cut at max_repos.
SearchPartialPrefix ==
    /\ searchPc = "done" =>
          /\ IsPrefix(returned, arrived)
          /\ Len(returned) = Min(max_repos, Len(arrived))
          /\ \A i \in 1..Len(returned) : returned[i] = i
    /\ (searchPc = "done" /\ searchErr = "GitHubAPIError") =>
          /\ returned = arrived
          /\ Len(returned) = (page - 1) * per_page
    /\ searchErr = "GitHubAPIError" => searchPc \in {"exit", "done"}

\* C5 witness: the second page request fails and the first page is returned.
SearchFailedAfterOnePage ==
    /\ searchPc = "done"
    /\ searchErr = "GitHubAPIError"
    /\ page = 2
    /\ Len(returned) = per_page

\* C11: before page request number n the loop has asked for the quota exactly
\* n times, so each page request has a snapshot of its own; when that snapshot
\* shows search.remaining <= 1 the loop has paused, before the page request,
\* for max(0, reset - now + 1) seconds, which is never negative; otherwise it
\* has not paused.
SearchThrottledBeforeEachPage ==
    /\ quotaChecks = pageRequests + (IF searchPc = "page" THEN 1 ELSE 0)
    /\ searchPc = "page" =>
         IF rate_limit # <<>> /\ rate_limit[1].search.remaining <= 1
         THEN /\ paused >= 0
              /\ paused = (IF rate_limit[1].search.reset - now_read + 1 > 0
                           THEN rate_limit[1].search.reset - now_read + 1
                           ELSE 0)
         ELSE paused = -1
    /\ searchPc # "page" => paused = -1

\* The second iteration found one search request left and a reset in the
\* past: it paused for zero seconds and is about to request page 2.
SecondPagePausedForZero ==
    /\ searchPc = "page"
    /\ page = 2
    /\ rate_limit # <<>>
    /\ rate_limit[1].search.remaining = 1
    /\ rate_limit[1].search.reset - now_read + 1 < 0
    /\ paused = 0

\* C20: when the quota query of an iteration fails (the snapshot is None), the
\* search is not stopped and no pause is made: the loop stands before the page
\* request, and its next step issues that request.
QuotaFailureStep ==
    /\ (searchPc = "loop" /\ quotaChecks' = quotaChecks + 1 /\ rate_limit' = <<>>)
         => (searchPc' = "page" /\ paused' = -1)
    /\ (searchPc = "page" /\ rate_limit = <<>>)
         => (paused = -1 /\ pageRequests' = pageRequests + 1)

SearchGoesOnWithoutQuota == [][QuotaFailureStep]_vars

\* The quota query of the second iteration failed, page 2 was requested all
\* the same and its items were collected.
SecondPageFetchedBlind ==
    /\ blindPage
    /\ pageRequests = 2
    /\ quotaChecks = 2
    /\ Len(repos) > per_page

----------------------------------------------------------------------------
(* The remote's repositories, trees and files                               *)

\* Paths are sequences of characters, so that the regular expressions of the
\* walk are matched on the text of the path.
PathMain == <<"m", "a", "i", "n", ".", "p", "y">>
PathUtil == <<"u", "t", "i", "l", ".", "p", "y">>
PathVenvLib == <<"v", "e", "n", "v", "/", "l", "i", "b", ".", "p", "y">>
PathReadme == <<"R", "E", "A", "D", "M", "E", ".", "m", "d">>
PathVenvDir == <<"v", "e", "n", "v">>

\* The repositories the remote knows; html_url and full_name are one-to-one
\* with the id, so a descriptor is modelled by its id.
RepoIds == {1, 2}
html_url(r) == r
full_name(r) == r

Blob(path) == [type |-> "blob", path |-> path]
Tree(path) == [type |-> "tree", path |-> path]

\* tree_data["tree"] of each repository's default branch, in the remote's order.
RemoteTree(r) ==
    IF r = 1
    THEN <<Blob(PathMain), Tree(PathVenvDir), Blob(PathVenvLib), Blob(PathUtil),
           Blob(PathReadme)>>
    ELSE <<Blob(PathMain), Blob(PathVenvLib)>>

\* The decoded text of a file is its sequence of lines; a line is modelled by
\* what `^\s*#` makes of it.
LineKinds == {"code", "blank", "comment", "indented_comment"}

TenLinesThreeComments ==
    <<"comment", "code", "code", "blank", "indented_comment", "code", "code",
      "comment", "code", "code">>

\* What GET /repos/{full_name}/contents/{path} serves: a JSON object with the
\* base64 `content`, or one without that field.
WithContent(lines) == [has_content |-> TRUE, lines |-> lines]
WithoutContent == [has_content |-> FALSE, lines |-> <<>>]

ContentChoices == {WithContent(TenLinesThreeComments), WithoutContent}

----------------------------------------------------------------------------
(* find_python_files and get_file_content_and_stats                         *)

StartsWith(s, pre) == Len(pre) <= Len(s) /\ SubSeq(s, 1, Len(pre)) = pre
EndsWith(s, suf) ==
    Len(suf) <= Len(s) /\ SubSeq(s, Len(s) - Len(suf) + 1, Len(s)) = suf
Contains(s, sub) ==
    \E i \in 1..(Len(s) - Len(sub) + 1) : SubSeq(s, i, i + Len(sub) - 1) = sub

\* exclude_patterns: `^text` is anchored at the start of the path; `.*text`
\* under re.search matches wherever text occurs.
Anchored(text) == [anchored |-> TRUE, text |-> text]
Anywhere(text) == [anchored |-> FALSE, text |-> text]

exclude_patterns ==
    << Anchored(<<"e", "n", "v", "/">>),
       Anchored(<<"v", "e", "n", "v", "/">>),
       Anywhere(<<"/", "s", "i", "t", "e", "-", "p", "a", "c", "k", "a", "g", "e", "s", "/">>),
       Anywhere(<<"/", "d", "i", "s", "t", "-", "p", "a", "c", "k", "a", "g", "e", "s", "/">>),
       Anchored(<<"t", "e", "s", "t", "s", "/">>),
       Anchored(<<"d", "o", "c", "s", "/">>),
       Anchored(<<".">>) >>

\* (a variant that looks for the text anywhere, whatever the anchor)
SearchUnanchored(pattern, path) == Contains(path, pattern.text)

\* re.search(pattern, path)
Search(pattern, path) ==
    IF pattern.anchored
    THEN StartsWith(path, pattern.text)
    ELSE Contains(path, pattern.text)

\* any(re.search(pattern, item["path"]) for pattern in exclude_patterns)
Excluded(path) ==
    \E i \in 1..Len(exclude_patterns) : Search(exclude_patterns[i], path)

\* The names a tree item's path is made of.
DirEnv == <<"e", "n", "v">>
DirVenv == <<"v", "e", "n", "v">>
DirTests == <<"t", "e", "s", "t", "s">>
DirDocs == <<"d", "o", "c", "s">>
DirSitePackages == <<"s", "i", "t", "e", "-", "p", "a", "c", "k", "a", "g", "e", "s">>
DirDistPackages == <<"d", "i", "s", "t", "-", "p", "a", "c", "k", "a", "g", "e", "s">>
DirApp == <<"a", "p", "p">>
DirSrc == <<"s", "r", "c">>
DirMyvenv == <<"m", "y", "v", "e", "n", "v">>
DirUnit == <<"u", "n", "i", "t">>
DirGithub == <<".", "g", "i", "t", "h", "u", "b">>
FileX == <<"x", ".", "p", "y">>
FileTestX == <<"t", "e", "s", "t", "_", "x", ".", "p", "y">>
FileTestsHelper == <<"t", "e", "s", "t", "s", "_", "h", "e", "l", "p", "e", "r", ".", "p", "y">>
FileMod == <<"m", "o", "d", ".", "p", "y">>

DirNames == {DirEnv, DirVenv, DirTests, DirDocs, DirSitePackages,
             DirDistPackages, DirApp, DirSrc, DirMyvenv, DirUnit, DirGithub}
FileNames == {FileX, FileTestX, FileTestsHelper, FileMod}

\* The path the git tree gives for a file: its directories and its name,
\* joined by "/", with no leading "/".
RECURSIVE JoinPath(_)
JoinPath(segments) ==
    IF Len(segments) = 1 THEN segments[1]
    ELSE segments[1] \o <<"/">> \o JoinPath(Tail(segments))

\* The source files under at most MaxDepth directories.
TreeItems ==
    {dirs \o <<f>> : dirs \in UNION {[1..k -> DirNames] : k \in 0..MaxDepth},
                     f \in FileNames}

\* The test the walk makes on one blob whose path ends in ".py".
ExcludeCheck ==
    /\ excludePc = "item"
    /\ matched' = {i \in 1..Len(exclude_patterns) :
                      Search(exclude_patterns[i], item_path)}
    /\ skipped' = Excluded(item_path)
    /\ excludePc' = "checked"
    /\ UNCHANGED <<item_segments, item_path>>

InitExclude ==
    /\ item_segments \in TreeItems
    /\ item_path = JoinPath(item_segments)
    /\ matched = {}
    /\ skipped = FALSE
    /\ excludePc = "item"
    /\ InitRequestIdle
    /\ InitSearchIdle
    /\ InitRunIdle

NextExclude == ExcludeCheck /\ UNCHANGED <<reqVars, searchVars, runVars>>

SpecExclude == InitExclude /\ [][NextExclude]_vars

\* `item["type"] == "blob" and item["path"].endswith(".py")` and not excluded:
\* the items whose content is fetched.
Eligible(item) ==
    /\ item.type = "blob"
    /\ EndsWith(item.path, <<".", "p", "y">>)
    /\ ~Excluded(item.path)

\* The first eligible item of the tree at or after position i (Len + 1 if none).
RECURSIVE NextEligible(_, _)
NextEligible(tree, i) ==
    IF i > Len(tree) THEN i
    ELSE IF Eligible(tree[i]) THEN i
    ELSE NextEligible(tree, i + 1)

\* re.match(r"^\s*#", line)
IsCommentLine(line) == line \in {"comment", "indented_comment"}

\* A ratio is kept as the fraction <<numerator, denominator>>; 0.0 is <<0, 1>>.
Zero == <<0, 1>>
RatioGE(ratio, threshold) == ratio[1] >= threshold * ratio[2]

\* The (num_lines, comment_ratio) get_file_content_and_stats computes from the
\* decoded content.
StatsOf(lines) ==
    LET num_lines == Len(lines)
        comment_lines == Cardinality({i \in 1..Len(lines) : IsCommentLine(lines[i])})
        code_lines == num_lines - comment_lines
    IN  IF num_lines = 0
        THEN [num_lines |-> 0, comment_ratio |-> Zero]
        ELSE [num_lines |-> num_lines,
              comment_ratio |-> IF code_lines > 0
                                THEN <<comment_lines * 100, code_lines>>
                                ELSE Zero]

\* What the except clause of get_file_content_and_stats returns: "", 0, 0.0
StatsOnError == [num_lines |-> 0, comment_ratio |-> Zero]

\* (a variant with a strict lower bound)
KeepsAboveMin(stats) ==
    /\ min_lines < stats.num_lines
    /\ stats.num_lines <= max_lines
    /\ RatioGE(stats.comment_ratio, quality_threshold)

\* `min_lines <= num_lines <= max_lines and comment_ratio >= quality_threshold`
Keeps(stats) ==
    /\ min_lines <= stats.num_lines
    /\ stats.num_lines <= max_lines
    /\ RatioGE(stats.comment_ratio, quality_threshold)

Candidate(path, stats) ==
    [path |-> path, num_lines |-> stats.num_lines, comment_ratio |-> stats.comment_ratio]

----------------------------------------------------------------------------
(* process_repository: one task of the worker pool                          *)

Key(r, path) == <<html_url(r), path>>

ResultRecord(r, c) ==
    [repo_url |-> html_url(r), python_file |-> c.path,
     num_lines |-> c.num_lines, comment_ratio |-> c.comment_ratio]

KeyOf(rec) == <<rec.repo_url, rec.python_file>>

\* A future as executor.submit creates it: process_repository has not started.
NewTask(r, snapshot) ==
    [repo |-> r,
     pc |-> "queued",
     idx |-> 1,
     python_files |-> <<>>,
     results |-> <<>>,
     skipped_count |-> 0,
     fetch_failed |-> {},
     fetched |-> {},
     requests |-> <<>>,
     error |-> "none",
     initial_existing_data |-> snapshot]

Tasks == DOMAIN task

\* What no step of a task touches.
mainFrame == <<mainPc, existing_data, main_repos, collected, all_results,
               total_skipped, output, preflightVars>>

Running == {t \in Tasks : task[t].pc \notin {"queued", "done", "failed"}}

Completed == {t \in Tasks : task[t].pc \in {"done", "failed"}}

\* What make_github_request gives for the metadata and for the tree.
InfoOutcomes == {"ok", "no_default_branch", "GitHubAPIError"}
TreeOutcomes == {"ok", "no_tree", "GitHubAPIError"}

\* A request of a task, as make_github_request is called for it.
Request(kind, path) == [kind |-> kind, path |-> path]

\* (a variant of the pool with a thread for every future)
WorkerAlwaysFree == TRUE

\* ThreadPoolExecutor(max_workers=max_workers) has a thread to spare.
WorkerFree == Cardinality(Running) < max_workers

\* A worker thread takes the oldest queued future; at most max_workers run.
TaskStart(t) ==
    /\ mainPc = "join"
    /\ task[t].pc = "queued"
    /\ \A u \in Tasks : u < t => task[u].pc # "queued"
    /\ WorkerFree
    /\ task' = [task EXCEPT ![t].pc = "info"]
    /\ UNCHANGED transient
    /\ UNCHANGED <<mainFrame, processed_files, lock>>

\* find_python_files: GET /repos/{full_name}. A failed request or a response
\* without default_branch makes the walk return [].
TaskInfo(t) ==
    /\ task[t].pc = "info"
    /\ \E o \in InfoOutcomes :
         /\ task' = [task EXCEPT ![t].pc = IF o = "ok" THEN "tree" ELSE "dedup",
                                 ![t].requests = Append(@, Request("info", <<>>))]
         /\ transient' = (transient \/ o # "ok")
    /\ UNCHANGED <<mainFrame, processed_files, lock>>

\* find_python_files: GET .../git/trees/{default_branch}?recursive=1. A failed
\* request (the outer except) or a response without `tree` returns [].
TaskTree(t) ==
    /\ task[t].pc = "tree"
    /\ LET tree == RemoteTree(task[t].repo)
           first == NextEligible(tree, 1)
       IN  \E o \in TreeOutcomes :
             /\ IF o = "ok" /\ first <= Len(tree)
                THEN task' = [task EXCEPT ![t].idx = first, ![t].pc = "files",
                                ![t].requests = Append(@, Request("tree", <<>>))]
                ELSE task' = [task EXCEPT ![t].pc = "dedup",
                                ![t].requests = Append(@, Request("tree", <<>>))]
             /\ transient' = (transient \/ o # "ok")
    /\ UNCHANGED <<mainFrame, processed_files, lock>>

\* The walk after the file at position i of the tree has been dealt with:
\* on to the next eligible item, or out of the loop with idx back at 1 for
\* the loop of process_repository.
AfterFile(tk, found) ==
    LET tree == RemoteTree(tk.repo)
        j == NextEligible(tree, tk.idx + 1)
    IN  [tk EXCEPT !.python_files = found,
                   !.idx = IF j > Len(tree) THEN 1 ELSE j,
                   !.pc = IF j > Len(tree) THEN "dedup" ELSE "files"]

\* One iteration of `for item in tree_data["tree"]` that reaches the content
\* request: get_file_content_and_stats and the filter.
\*   - the request fails for good: the except clause returns ("", 0, 0.0);
\*   - the response has no `content`: the function falls off its end and
\*     returns None, and unpacking None into three names raises TypeError,
\*     which no except clause of the walk or of process_repository catches;
\*   - otherwise the stats of the decoded content.
TaskFile(t) ==
    /\ task[t].pc = "files"
    /\ LET path == RemoteTree(task[t].repo)[task[t].idx].path
           tk == [task[t] EXCEPT !.requests = Append(@, Request("content", path))]
           served == content[<<tk.repo, path>>]
       IN  \E fetched \in BOOLEAN :
             /\ transient' = (transient \/ ~fetched)
             /\ IF ~fetched
                THEN task' = [task EXCEPT ![t] =
                         AfterFile([tk EXCEPT !.fetch_failed = @ \cup {path}],
                                   IF Keeps(StatsOnError)
                                   THEN Append(tk.python_files,
                                               Candidate(path, StatsOnError))
                                   ELSE tk.python_files)]
                ELSE IF ~served.has_content
                THEN task' = [task EXCEPT ![t] =
                         [tk EXCEPT !.pc = "failed", !.error = "TypeError"]]
                ELSE task' = [task EXCEPT ![t] =
                         AfterFile([tk EXCEPT !.fetched = @ \cup {path}],
                                   IF Keeps(StatsOf(served.lines))
                                   THEN Append(tk.python_files,
                                               Candidate(path, StatsOf(served.lines)))
                                   ELSE tk.python_files)]
    /\ UNCHANGED <<mainFrame, processed_files, lock>>

\* The candidate the loop of process_repository is at.
Current(tk) == tk.python_files[tk.idx]

\* `if (repo_url, file_path) not in initial_existing_data: ... else:
\* skipped_count += 1`
TaskCheckExisting(t) ==
    /\ task[t].pc = "dedup"
    /\ task[t].idx <= Len(task[t].python_files)
    /\ LET tk == task[t]
           key == Key(tk.repo, Current(tk).path)
       IN  IF key \notin tk.initial_existing_data
           THEN task' = [task EXCEPT ![t].pc = "acquire"]
           ELSE task' = [task EXCEPT ![t].skipped_count = @ + 1, ![t].idx = @ + 1]
    /\ UNCHANGED transient
    /\ UNCHANGED <<mainFrame, processed_files, lock>>

\* (a variant in which the lock excludes nobody)
LockAlwaysFree(t) == TRUE

\* threading.Lock: acquire blocks while another thread holds the lock.
LockFree(t) == lock = 0

\* (a variant whose critical section ends with the lock still held)
HeldOnExit(t) == t

\* The with block ends and releases the lock: nobody holds it.
Released(t) == 0

\* `with processed_files_lock:` entered
TaskAcquire(t) ==
    /\ task[t].pc = "acquire"
    /\ LockFree(t)
    /\ lock' = t
    /\ task' = [task EXCEPT ![t].pc = "locked"]
    /\ UNCHANGED transient
    /\ UNCHANGED <<mainFrame, processed_files>>

\* `if (repo_url, file_path) not in processed_files:` read under the lock. A
\* key found there is neither emitted nor counted: the with block ends.
TaskCheckProcessed(t) ==
    /\ task[t].pc = "locked"
    /\ LET tk == task[t]
           key == Key(tk.repo, Current(tk).path)
       IN  IF key \notin processed_files
           THEN /\ task' = [task EXCEPT ![t].pc = "insert"]
                /\ UNCHANGED lock
           ELSE /\ task' = [task EXCEPT ![t].pc = "dedup", ![t].idx = @ + 1]
                /\ lock' = Released(t)
    /\ UNCHANGED transient
    /\ UNCHANGED <<mainFrame, processed_files>>

\* (a variant that emits the record and forgets to record its key)
WithoutKey(files, key) == files

\* processed_files.add((repo_url, file_path))
WithKey(files, key) == files \cup {key}

\* results.append({...}); processed_files.add(...); the with block ends. The
\* two statements are one step: processed_files is read only under the lock,
\* which this task holds from the test to the add.
TaskInsert(t) ==
    /\ task[t].pc = "insert"
    /\ LET tk == task[t]
       IN  /\ task' = [task EXCEPT ![t].results =
                                      Append(@, ResultRecord(tk.repo, Current(tk))),
                                   ![t].pc = "dedup",
                                   ![t].idx = @ + 1]
           /\ processed_files' = WithKey(processed_files, Key(tk.repo, Current(tk).path))
    /\ lock' = Released(t)
    /\ UNCHANGED transient
    /\ UNCHANGED mainFrame

\* The loop is over: progress.update, `return results, skipped_count`.
TaskReturn(t) ==
    /\ task[t].pc = "dedup"
    /\ task[t].idx > Len(task[t].python_files)
    /\ task' = [task EXCEPT ![t].pc = "done"]
    /\ UNCHANGED transient
    /\ UNCHANGED <<mainFrame, processed_files, lock>>

----------------------------------------------------------------------------
(* main                                                                     *)

\* The elements of a sequence, and the concatenation of the sequences f[t]
\* for the t of a sequence of indices.
Range(s) == {s[i] : i \in 1..Len(s)}

BoundedSeq(S, n) == UNION {[1..k -> S] : k \in 0..n}

KeysOf(records) == {KeyOf(records[i]) : i \in 1..Len(records)}

\* processed_files = set(); existing_data = load_existing_data(directory):
\* every (repo_url, python_file) of the JSON files of the directory.
MainStart ==
    /\ mainPc = "start"
    /\ processed_files' = {}
    /\ lock' = 0
    /\ existing_data' = disk
    /\ mainPc' = "probe"
    /\ UNCHANGED <<main_repos, task, collected, all_results, total_skipped, output>>
    /\ UNCHANGED <<remoteVars, configVars, preflightVars, historyVars, transient>>

\* `if rate_limit_status["core"]["remaining"] == 0`
CoreQuotaExhausted(s) == s[1].core.remaining = 0

\* rate_limit_status = get_rate_limit_status(token): None ends the run; a core
\* quota of zero makes main sleep until the reset; otherwise the search is
\* next.
MainProbe ==
    /\ mainPc = "probe"
    /\ \E s \in CoreProbes :
         /\ rate_limit_status' = s
         /\ IF s = None
            THEN /\ probeFailed' = TRUE
                 /\ mainPc' = "aborted"
                 /\ UNCHANGED <<start_now, startup_wait>>
            ELSE /\ UNCHANGED probeFailed
                 /\ IF CoreQuotaExhausted(s)
                    THEN \E n \in NowTimes :
                           /\ start_now' = n
                           /\ startup_wait' = ThrottleWait(s[1].core.reset, n)
                           /\ mainPc' = "reprobe"
                    ELSE /\ mainPc' = "search"
                         /\ UNCHANGED <<start_now, startup_wait>>
    /\ UNCHANGED <<existing_data, processed_files, lock, main_repos, task,
                   collected, all_results, total_skipped, output>>
    /\ UNCHANGED <<remoteVars, configVars, historyVars, transient>>

\* (a variant whose status line does not read the snapshot)
AfterReprobeUnread(s) == "search"

\* The status line printed after the wait subscripts the new snapshot: on None
\* that raises TypeError, which `except Exception` turns into `return`.
AfterReprobe(s) == IF s = None THEN "aborted" ELSE "search"

\* rate_limit_status = get_rate_limit_status(token) after the sleep. The clock
\* reading is dead by now.
MainReprobe ==
    /\ mainPc = "reprobe"
    /\ \E s \in CoreProbes :
         /\ rate_limit_status' = s
         /\ probeFailed' = (probeFailed \/ s = None)
         /\ mainPc' = AfterReprobe(s)
    /\ start_now' = 0
    /\ UNCHANGED startup_wait
    /\ UNCHANGED <<existing_data, processed_files, lock, main_repos, task,
                   collected, all_results, total_skipped, output>>
    /\ UNCHANGED <<remoteVars, configVars, historyVars, transient>>

\* repos = search_repositories(...); `if not repos: return`;
\* all_results = []; total_skipped = 0. The snapshot and the wait of the
\* pre-flight check are not read again: they are reset.
MainSearch ==
    /\ mainPc = "search"
    /\ main_repos' = searchResult
    /\ mainPc' = IF searchResult = <<>> THEN "done" ELSE "submit"
    /\ all_results' = <<>>
    /\ total_skipped' = 0
    /\ rate_limit_status' = None
    /\ startup_wait' = -1
    /\ UNCHANGED <<start_now, probeFailed>>
    /\ UNCHANGED <<existing_data, processed_files, lock, task, collected, output>>
    /\ UNCHANGED <<remoteVars, configVars, historyVars, transient>>

\* futures = [executor.submit(process_repository, ..., existing_data.copy(),
\* processed_files, processed_files_lock, ...) for repo in repos]
MainSubmit ==
    /\ mainPc = "submit"
    /\ task' = [t \in 1..Len(main_repos) |-> NewTask(main_repos[t], existing_data)]
    /\ collected' = {}
    /\ mainPc' = "join"
    /\ UNCHANGED <<existing_data, processed_files, lock, main_repos,
                   all_results, total_skipped, output>>
    /\ UNCHANGED <<remoteVars, configVars, preflightVars, historyVars, transient>>

\* (a variant whose except clause leaves the as_completed loop)
AfterFailedFutureStop(done) == Tasks

\* `except Exception as e:` logs and the as_completed loop goes on.
AfterFailedFuture(done) == done

\* One iteration of `for future in concurrent.futures.as_completed(futures)`.
MainCollect(t) ==
    /\ mainPc = "join"
    /\ t \in Completed \ collected
    /\ IF task[t].pc = "done"
       THEN /\ all_results' = all_results \o task[t].results
            /\ total_skipped' = total_skipped + task[t].skipped_count
            /\ collected' = collected \cup {t}
       ELSE /\ collected' = AfterFailedFuture(collected \cup {t})
            /\ UNCHANGED <<all_results, total_skipped>>
    /\ UNCHANGED <<mainPc, existing_data, processed_files, lock, main_repos, task, output>>
    /\ UNCHANGED <<remoteVars, configVars, preflightVars, historyVars, transient>>

\* (a variant that leaves the pool as soon as one future has been consumed)
JoinedAfterFirstFuture == collected # {}

\* as_completed is exhausted (every future was yielded) and the `with` block
\* of the executor has been left (shutdown waits for every worker).
Joined == collected = Tasks /\ Completed = Tasks

\* json.dump of all_results into a new file of the directory; output is the
\* sequence of the dumps made by this run.
MainWrite ==
    /\ mainPc = "join"
    /\ Joined
    /\ output' = Append(output, all_results)
    /\ disk' = disk \cup KeysOf(all_results)
    /\ mainPc' = "done"
    /\ UNCHANGED <<existing_data, processed_files, lock, main_repos, task,
                   collected, all_results, total_skipped>>
    /\ UNCHANGED <<remoteVars, configVars, preflightVars, runNo, firstDisk,
                   prevRecords, transient>>

TaskStep(t) ==
    /\ \/ TaskStart(t)
       \/ TaskInfo(t)
       \/ TaskTree(t)
       \/ TaskFile(t)
       \/ TaskCheckExisting(t)
       \/ TaskAcquire(t)
       \/ TaskCheckProcessed(t)
       \/ TaskInsert(t)
       \/ TaskReturn(t)
    /\ UNCHANGED <<remoteVars, configVars, historyVars>>

\* The files whose content a walk may ask for.
EligiblePaths(r) ==
    {RemoteTree(r)[i].path :
        i \in {j \in 1..Len(RemoteTree(r)) : Eligible(RemoteTree(r)[j])}}

ContentKeys == UNION {{<<r, p>> : p \in EligiblePaths(r)} : r \in RepoIds}

InitMain ==
    /\ mainPc = "start"
    /\ existing_data = {}
    /\ processed_files = {}
    /\ lock = 0
    /\ main_repos = <<>>
    /\ task = <<>>
    /\ collected = {}
    /\ all_results = <<>>
    /\ total_skipped = 0
    /\ output = <<>>
    /\ rate_limit_status = <<>>
    /\ start_now = 0
    /\ startup_wait = -1
    /\ probeFailed = FALSE
    /\ runNo = 1
    /\ firstDisk = disk
    /\ prevRecords = -1
    /\ transient = FALSE

\* The keys the directory already holds when a first run finds earlier output.
EarlierKeys == {Key(1, PathMain)}

\* The run with the default filters, any search result of up to MaxRepos
\* descriptors (the same repository may come twice), any pool size.
InitRun ==
    /\ searchResult \in BoundedSeq(RepoIds, MaxRepos)
    /\ content \in [ContentKeys -> ContentChoices]
    /\ disk = EarlierKeys
    /\ min_lines = 1
    /\ max_lines = 100
    /\ quality_threshold = 0
    /\ max_workers \in 1..MaxWorkers
    /\ InitMain
    /\ InitRequestIdle
    /\ InitExcludeIdle
    /\ InitSearchIdle

NextRun ==
    \/ MainStart /\ UNCHANGED <<reqVars, searchVars, excludeVars>>
    \/ MainProbe /\ UNCHANGED <<reqVars, searchVars, excludeVars>>
    \/ MainReprobe /\ UNCHANGED <<reqVars, searchVars, excludeVars>>
    \/ MainSearch /\ UNCHANGED <<reqVars, searchVars, excludeVars>>
    \/ MainSubmit /\ UNCHANGED <<reqVars, searchVars, excludeVars>>
    \/ \E t \in Tasks : TaskStep(t) /\ UNCHANGED <<reqVars, searchVars, excludeVars>>
    \/ \E t \in Tasks : MainCollect(t) /\ UNCHANGED <<reqVars, searchVars, excludeVars>>
    \/ MainWrite /\ UNCHANGED <<reqVars, searchVars, excludeVars>>

Spec == InitRun /\ [][NextRun]_vars

\* The walk of one repository under every filter setting the command line
\* allows (min_lines <= max_lines, also non-positive; quality_threshold >= 0).
TwoCommentLines == <<"comment", "indented_comment">>

WalkContentChoices ==
    {WithContent(TenLinesThreeComments), WithContent(<<>>),
     WithContent(TwoCommentLines), WithoutContent}

\* venv/lib.py has 50 lines of code wherever it exists.
FiftyLines == [i \in 1..50 |-> "code"]

ExcludedKeys == {<<r, PathVenvLib>> : r \in RepoIds}

\* The thresholds lie around 300/7, the ratio of TenLinesThreeComments.
InitWalk ==
    /\ searchResult \in {<<r>> : r \in RepoIds}
    /\ \E served \in [ContentKeys -> WalkContentChoices] :
         content = [k \in ContentKeys \cup ExcludedKeys |->
                       IF k \in ContentKeys THEN served[k]
                       ELSE WithContent(FiftyLines)]
    /\ disk = {}
    /\ min_lines \in {-1, 0, 1}
    /\ max_lines \in {0, 100}
    /\ min_lines <= max_lines
    /\ quality_threshold \in {0, 42, 43}
    /\ max_workers = 1
    /\ InitMain
    /\ InitRequestIdle
    /\ InitExcludeIdle
    /\ InitSearchIdle

SpecWalk == InitWalk /\ [][NextRun]_vars

\* main is started again in the same directory, against the same remote.
Restart ==
    /\ mainPc \in {"done", "aborted"}
    /\ runNo < MaxRuns
    /\ runNo' = runNo + 1
    /\ prevRecords' = IF output = <<>> THEN -1 ELSE Len(output[1])
    /\ mainPc' = "start"
    /\ existing_data' = {}
    /\ processed_files' = {}
    /\ lock' = 0
    /\ main_repos' = <<>>
    /\ task' = <<>>
    /\ collected' = {}
    /\ all_results' = <<>>
    /\ total_skipped' = 0
    /\ output' = <<>>
    /\ rate_limit_status' = None
    /\ start_now' = 0
    /\ startup_wait' = -1
    /\ probeFailed' = FALSE
    /\ UNCHANGED <<remoteVars, configVars, disk, firstDisk, transient>>

InitRerun ==
    /\ searchResult \in BoundedSeq(RepoIds, MaxRepos)
    /\ content \in [ContentKeys -> ContentChoices]
    /\ disk \in SUBSET EarlierKeys
    /\ min_lines = 1
    /\ max_lines = 100
    /\ quality_threshold = 0
    /\ max_workers \in 1..MaxWorkers
    /\ InitMain
    /\ InitRequestIdle
    /\ InitExcludeIdle
    /\ InitSearchIdle

NextRerun ==
    \/ NextRun
    \/ Restart /\ UNCHANGED <<reqVars, searchVars, excludeVars>>

SpecRerun == InitRerun /\ [][NextRerun]_vars

\* The run in an empty directory, where the first repository yields two
\* records; the files of the first repository are served whole, the file of
\* the second one may come without content.
InitJoin ==
    /\ searchResult \in BoundedSeq(RepoIds, MaxRepos)
    /\ \E c \in ContentChoices :
         content = [k \in ContentKeys |->
                       IF k[1] = 1 THEN WithContent(TenLinesThreeComments) ELSE c]
    /\ disk = {}
    /\ min_lines = 1
    /\ max_lines = 100
    /\ quality_threshold = 0
    /\ max_workers \in 1..MaxWorkers
    /\ InitMain
    /\ InitRequestIdle
    /\ InitExcludeIdle
    /\ InitSearchIdle

SpecJoin == InitJoin /\ [][NextRun]_vars

\* Any one of the three machines, started and left to run. A thread that can
\* take a step takes one in the end: the interpreter schedules every thread,
\* every transport call returns or raises, every sleep is finite.
LiveTargets == {1, per_page, MaxTarget}
LiveTotals == {0, per_page, MaxTotal}
LiveResults == {<<>>, <<1>>, <<1, 2>>, <<2, 2>>}

InitLive ==
    \/ InitRequest
    \/ InitSearch /\ max_repos \in LiveTargets /\ totalAvailable \in LiveTotals
    \/ InitRun /\ searchResult \in LiveResults

NextLive == NextRequest \/ NextSearch \/ NextRun

SpecLive == InitLive /\ [][NextLive]_vars /\ WF_vars(NextLive)

----------------------------------------------------------------------------
(* Properties of the run                                                    *)

\* The positions <<task, index>> of the records emitted so far.
Emitted == UNION {{<<t, i>> : i \in 1..Len(task[t].results)} : t \in Tasks}

RecordAt(e) == task[e[1]].results[e[2]]

NoDuplicateKeys(records) ==
    \A i, j \in 1..Len(records) : KeyOf(records[i]) = KeyOf(records[j]) => i = j

RECURSIVE CountResults(_)
CountResults(S) ==
    IF S = {} THEN 0
    ELSE LET t == CHOOSE x \in S : TRUE
         IN  Len(task[t].results) + CountResults(S \ {t})

RECURSIVE CountSkipped(_)
CountSkipped(S) ==
    IF S = {} THEN 0
    ELSE LET t == CHOOSE x \in S : TRUE
         IN  task[t].skipped_count + CountSkipped(S \ {t})

Succeeded == {t \in Tasks : task[t].pc = "done"}

\* C1: whatever the interleaving of the tasks, a key is emitted at most once
\* in the run and a key of the pre-existing snapshot is never emitted; the
\* aggregate and the output hold no two records with one key and no record
\* whose key is in the pre-existing data.
EmittedAtMostOnce ==
    /\ \A e, f \in Emitted : KeyOf(RecordAt(e)) = KeyOf(RecordAt(f)) => e = f
    /\ \A e \in Emitted : KeyOf(RecordAt(e)) \notin firstDisk
    /\ NoDuplicateKeys(all_results)
    /\ KeysOf(all_results) \cap firstDisk = {}
    /\ output # <<>> =>
          /\ NoDuplicateKeys(output[1])
          /\ KeysOf(output[1]) \cap firstDisk = {}

\* C1 witness: two tasks walked the same repository and both kept the same
\* new file; one of them emitted it, the other did not; the output is
\* written, and a file of the pre-existing data was a candidate too.
SameKeyRacedAndWritten ==
    /\ mainPc = "done"
    /\ output # <<>>
    /\ \E t, u \in Tasks :
         /\ t # u
         /\ task[t].repo = task[u].repo
         /\ task[t].pc = "done" /\ task[u].pc = "done"
         /\ \E i \in 1..Len(task[t].results) :
              /\ task[t].results[i].python_file = PathUtil
              /\ \E j \in 1..Len(task[u].python_files) :
                    task[u].python_files[j].path = PathUtil
              /\ \A j \in 1..Len(task[u].results) :
                    task[u].results[j].python_file # PathUtil
         /\ \E j \in 1..Len(task[t].python_files) :
              Key(task[t].repo, task[t].python_files[j].path) \in firstDisk

\* C7 (as claimed): when a task ends, emitted records + skipped count = the
\* number of candidates of its walk.
EveryCandidateEmittedOrSkipped ==
    \A t \in Tasks :
        task[t].pc = "done" =>
            Len(task[t].results) + task[t].skipped_count = Len(task[t].python_files)

\* C10: a task that ended with an uncaught error adds no record and no skip
\* to the aggregate; when the output is written every task has ended, and
\* the aggregate holds the records and the skips of all tasks that returned.
FailedTaskIsolated ==
    /\ \A t \in Tasks : task[t].pc = "failed" =>
          (task[t].results = <<>> /\ task[t].skipped_count = 0)
    /\ Len(all_results) = CountResults(Succeeded \cap collected)
    /\ total_skipped = CountSkipped(Succeeded \cap collected)
    /\ output # <<>> =>
          /\ Completed = Tasks
          /\ output[1] = all_results
          /\ Len(output[1]) = CountResults(Succeeded)
          /\ total_skipped = CountSkipped(Succeeded)
          /\ \A t \in Succeeded : Range(task[t].results) \subseteq Range(output[1])

\* C10 witness: one task failed, a sibling returned records, and the output
\* holds them.
FailedTaskBesideWrittenSibling ==
    /\ mainPc = "done"
    /\ output # <<>>
    /\ \E t, u \in Tasks :
         /\ task[t].pc = "failed"
         /\ task[u].pc = "done"
         /\ task[u].results # <<>>
         /\ Range(task[u].results) \subseteq Range(output[1])

\* C8 (as claimed): a file whose content request failed for good yields no
\* candidate and no record.
FailedFetchContributesNothing ==
    \A t \in Tasks : \A p \in task[t].fetch_failed :
        /\ \A i \in 1..Len(task[t].python_files) : task[t].python_files[i].path # p
        /\ \A i \in 1..Len(task[t].results) : task[t].results[i].python_file # p

\* C9 (as claimed): a content response without `content` raises nothing: no
\* task ends with the TypeError of the unpacking, the walk goes on.
MissingContentRaisesNothing ==
    \A t \in Tasks : task[t].error # "TypeError" /\ task[t].pc # "failed"

\* C6 (as claimed): the first run found an empty directory and wrote its
\* output; the second run, with the same search result, the same files and
\* no failed request in either run, emits nothing and skips as many
\* candidates as the first run wrote records.
RerunSkipsWhatWasWritten ==
    (/\ runNo = 2
     /\ mainPc = "done"
     /\ output # <<>>
     /\ firstDisk = {}
     /\ prevRecords >= 0
     /\ ~transient)
    => (Len(output[1]) = 0 /\ total_skipped = prevRecords)

\* C12 (as claimed): the pre-flight check applies the rule of the search loop:
\* when the probed core quota has remaining <= 1, main has paused for
\* max(0, reset - now + 1) seconds before the search starts; so a run that
\* stands before the search without having paused probed remaining > 1.
\* Violated: main pauses on `remaining == 0` only, a core quota of 1 goes
\* straight to the search.
PreflightThrottlesLikeSearch ==
    /\ mainPc = "reprobe" =>
         startup_wait = Max(0, rate_limit_status[1].core.reset - start_now + 1)
    /\ (mainPc = "search" /\ startup_wait = -1) =>
         rate_limit_status[1].core.remaining > 1

\* C13: once a probe of main has returned None, at the first probe or at the
\* re-probe after the wait, the run is over: the search is not called, no
\* task exists, nothing is collected and nothing is written.
FailedProbeAborts ==
    probeFailed =>
        /\ mainPc = "aborted"
        /\ main_repos = <<>>
        /\ task = <<>>
        /\ all_results = <<>>
        /\ output = <<>>
        /\ disk = firstDisk

\* The first probe found the core quota at zero, main waited, and the probe
\* after the wait returned None: the run is aborted.
ReprobeFailedAfterWait ==
    /\ mainPc = "aborted"
    /\ probeFailed
    /\ startup_wait >= 0
    /\ rate_limit_status = None
    /\ searchResult # <<>>

\* C14: the patterns for env/, venv/, tests/ and docs/ match a source file
\* exactly when the first name of its path is env, venv, tests or docs; such a
\* name further down the path, or as part of a longer first name, matches
\* none of them.
RootPatterns == {1, 2, 5, 6}

RootExclusionIsOnFirstSegment ==
    excludePc = "checked" =>
        /\ (matched \cap RootPatterns # {})
             <=> item_segments[1] \in {DirEnv, DirVenv, DirTests, DirDocs}
        /\ (matched \cap RootPatterns # {}) => skipped

\* tests/unit/test_x.py is skipped, by the pattern for tests/.
TestsUnitFileSkipped ==
    /\ excludePc = "checked"
    /\ item_segments = <<DirTests, DirUnit, FileTestX>>
    /\ matched = {5}
    /\ skipped

\* C15 (as claimed): every source file with a directory named site-packages
\* or dist-packages on its path is skipped, also when that directory is the
\* first name of the path. Violated: the patterns ask for a "/" before the
\* name, which the first name of a path does not have.
PackagesDirSkippedAtAnyDepth ==
    excludePc = "checked" =>
        ((\E i \in 1..(Len(item_segments) - 1) :
             item_segments[i] \in {DirSitePackages, DirDistPackages})
         => skipped)

\* C16: a walk kept a file it fetched with its content exactly when
\* min_lines <= total lines <= max_lines and ratio >= quality_threshold, where
\* the ratio is comment lines / (total lines - comment lines) * 100, and 0 when
\* no line is code; the candidate carries that count and that ratio. And in
\* the scenario of main.py (10 lines, 3 of them comments) beside venv/lib.py
\* (50 lines), with min_lines = 1, max_lines = 100, quality_threshold = 0 and
\* no failed request, the output is the one record of main.py with 10 lines
\* and ratio 300/7.
CommentsOf(lines) == Cardinality({i \in DOMAIN lines : lines[i] \in {"comment", "indented_comment"}})

FilterHolds(lines) ==
    LET total == Len(lines)
        comments == CommentsOf(lines)
    IN  /\ min_lines <= total
        /\ total <= max_lines
        /\ IF total - comments = 0
           THEN 0 >= quality_threshold
           ELSE comments * 100 >= quality_threshold * (total - comments)

RatioOf(lines) ==
    IF Len(lines) - CommentsOf(lines) = 0 THEN <<0, 1>>
    ELSE <<CommentsOf(lines) * 100, Len(lines) - CommentsOf(lines)>>

ScenarioRecord ==
    [repo_url |-> 2, python_file |-> PathMain, num_lines |-> 10,
     comment_ratio |-> <<300, 7>>]

InScenario ==
    /\ main_repos = <<2>>
    /\ min_lines = 1
    /\ max_lines = 100
    /\ quality_threshold = 0
    /\ content[<<2, PathMain>>] = WithContent(TenLinesThreeComments)
    /\ content[<<2, PathVenvLib>>] = WithContent(FiftyLines)
    /\ ~transient

FilterKeepsExactlyTheFitting ==
    /\ \A t \in Tasks :
         \A p \in task[t].fetched :
            LET lines == content[<<task[t].repo, p>>].lines
                kept == {i \in 1..Len(task[t].python_files) :
                            task[t].python_files[i].path = p}
            IN  /\ (kept # {}) <=> FilterHolds(lines)
                /\ \A i \in kept :
                     /\ task[t].python_files[i].num_lines = Len(lines)
                     /\ task[t].python_files[i].comment_ratio = RatioOf(lines)
    /\ (InScenario /\ mainPc = "done") => output = << <<ScenarioRecord>> >>

\* The scenario has run to its end and its output is written.
ScenarioWritten ==
    /\ InScenario
    /\ mainPc = "done"
    /\ output = << <<ScenarioRecord>> >>
    /\ task[1].fetched = {PathMain}

\* C17: a run writes its output at most once, and not before the join: when
\* the output exists every dispatched task has returned or failed, and the
\* output is the result lists of the tasks that returned, one after the other
\* in some order of those tasks, nothing else; the records of one task follow
\* the order of that repository's tree.
TaskOrders(S) ==
    {o \in [1..Cardinality(S) -> S] : \A i, j \in DOMAIN o : o[i] = o[j] => i = j}

RECURSIVE ResultsInOrder(_)
ResultsInOrder(o) ==
    IF Len(o) = 0 THEN <<>>
    ELSE task[Head(o)].results \o ResultsInOrder(Tail(o))

TreeIndex(r, path) == CHOOSE i \in 1..Len(RemoteTree(r)) : RemoteTree(r)[i].path = path

InTreeOrder(t) ==
    \A i, j \in 1..Len(task[t].results) :
        i < j => TreeIndex(task[t].repo, task[t].results[i].python_file)
                   < TreeIndex(task[t].repo, task[t].results[j].python_file)

OutputOnceAfterJoin ==
    /\ Len(output) <= 1
    /\ mainPc # "done" => output = <<>>
    /\ output # <<>> =>
          /\ \A t \in Tasks : task[t].pc \in {"done", "failed"}
          /\ \E o \in TaskOrders({t \in Tasks : task[t].pc = "done"}) :
                output[1] = ResultsInOrder(o)
    /\ \A t \in Tasks : InTreeOrder(t)

\* Two tasks returned, the first with two records and the second with one;
\* the second was consumed first, and the output is written.
OutputInCompletionOrder ==
    /\ mainPc = "done"
    /\ Len(task) = 2
    /\ task[1].pc = "done"
    /\ task[2].pc = "done"
    /\ Len(task[1].results) = 2
    /\ Len(task[2].results) = 1
    /\ output = <<task[2].results \o task[1].results>>

\* C18: once the futures are submitted there is exactly one task for each
\* descriptor of the search result, in its order; at every moment at most
\* max_workers tasks are executing; and the requests a task has made so far
\* are the beginning of one fixed series: the metadata, the tree, then the
\* content of each eligible file in the order of the tree, each at most once.
RECURSIVE ContentRequests(_, _)
ContentRequests(r, i) ==
    IF i > Len(RemoteTree(r)) THEN <<>>
    ELSE IF Eligible(RemoteTree(r)[i])
         THEN <<Request("content", RemoteTree(r)[i].path)>> \o ContentRequests(r, i + 1)
         ELSE ContentRequests(r, i + 1)

RequestSeries ==
    [r \in RepoIds |->
        <<Request("info", <<>>), Request("tree", <<>>)>> \o ContentRequests(r, 1)]

OneTaskPerDescriptor ==
    /\ mainPc \in {"join", "done"} =>
          /\ Len(task) = Len(main_repos)
          /\ \A t \in Tasks : task[t].repo = main_repos[t]
    /\ mainPc \notin {"join", "done"} => task = <<>>
    /\ Cardinality({t \in Tasks : task[t].pc \notin {"queued", "done", "failed"}})
          <= max_workers
    /\ \A t \in Tasks :
          /\ Len(task[t].requests) <= Len(RequestSeries[task[t].repo])
          /\ task[t].requests = SubSeq(RequestSeries[task[t].repo], 1, Len(task[t].requests))

\* The pool has one worker: the first task has asked for the metadata, the
\* tree and its first file, the second task waits in the queue.
SecondTaskWaitsForWorker ==
    /\ max_workers = 1
    /\ Len(task) = 2
    /\ Len(task[1].requests) = 3
    /\ task[1].pc = "files"
    /\ task[2].pc = "queued"

\* C19: under fair scheduling whatever was started comes to its end: the call
\* of the request executor returns or raises, after at most MAX_RETRIES
\* attempts; the search returns; main is done or aborted, with every task
\* returned or failed. A task that waits for the lock gets it. The lock is
\* held only inside the critical section, where no request is made and
\* nothing sleeps.
Terminated ==
    /\ reqPc \in {"idle", "returned", "raised"}
    /\ searchPc \in {"idle", "done"}
    /\ mainPc \in {"idle", "done", "aborted"}
    /\ \A t \in Tasks : task[t].pc \in {"done", "failed"}
    /\ lock = 0

Waiting(t) == t \in Tasks /\ task[t].pc = "acquire"

Holding(t) == t \in Tasks /\ task[t].pc \in {"locked", "insert"}

LockOnlyInsideCriticalSection ==
    /\ lock # 0 => Holding(lock)
    /\ \A t \in Tasks : Holding(t) => lock = t

EveryRunCompletes ==
    /\ <>[]Terminated
    /\ [](attempt <= MAX_RETRIES - 1)
    /\ \A t \in 1..MaxRepos : Waiting(t) ~> Holding(t)
    /\ []LockOnlyInsideCriticalSection

\* A task waits for the lock while another task is inside the critical
\* section.
WaitsWhileOtherHolds ==
    \E t, u \in Tasks :
        /\ t # u
        /\ task[t].pc = "acquire"
        /\ lock = u
        /\ task[u].pc = "insert"

\* C21: in every state of a run processed_files is exactly the set of the keys
\* of the records the tasks have emitted so far, and it has no key in common
\* with existing_data; no step takes a key out of it; and existing_data, like
\* the copy each task was given, is the set loaded when the run started,
\* which no step of a task changes.
EmittedKeys == UNION {KeysOf(task[t].results) : t \in Tasks}

ProcessedKeysAreEmittedKeys ==
    /\ processed_files = EmittedKeys
    /\ processed_files \cap existing_data = {}
    /\ mainPc # "start" =>
          /\ existing_data = firstDisk
          /\ \A t \in Tasks : task[t].initial_existing_data = firstDisk

KeySetsStep ==
    /\ processed_files \subseteq processed_files'
    /\ mainPc # "start" => existing_data' = existing_data

====
